---------------------------- MODULE Spec2Model ----------------------------
(***************************************************************************)
(* Model of the bit array engine of flower_bloom_filter                    *)
(* (src/native/bitarray/src/lib.rs): a boxed slice of u64 words behind a   *)
(* Mutex, with point get/put, population count and the chunked             *)
(* serialize / merge / count protocol.                                     *)
(*                                                                         *)
(* Representation.  A u64 word, and a usize argument whose width matters   *)
(* (usize is 64 bits wide on the target), is the set of its set bit        *)
(* positions, a subset of 0..63: bit k of the integer is "k \in w".        *)
(* Bitwise operators are set operators, shifts move positions and drop the *)
(* ones that leave 0..63, and + - * are computed by carry propagation, so  *)
(* wrap-around happens where the hardware wraps.  Values that the code     *)
(* only indexes with (a bit index, a byte offset, a loop counter) are      *)
(* naturals.  Rust slices are 0-based, TLA+ sequences 1-based: data[i] of  *)
(* the source is data[i + 1] here.                                         *)
(*                                                                         *)
(* The words of an array are a sequence, data, and a number, more: an      *)
(* array of up to MaxWritten words has all its words in data and more = 0; *)
(* a longer one has in data its words up to the last one that is not zero, *)
(* and more is the number of words after these, all of them zero.          *)
(***************************************************************************)
EXTENDS Integers, Sequences, FiniteSets, TLC

VARIABLES
    overflow_checks, \* build profile: TRUE = arithmetic overflow panics (debug),
                     \* FALSE = it wraps (release)
    arr,             \* handle -> the BitArray resource, or NoResource
    ret,             \* the last call made by the host: operation, arguments, result
    ser,             \* host side of a cursor-driven to_bin_chunked scan
    cnt,             \* host side of a cursor-driven count_ones_chunked scan
    thr,             \* threads calling into array "a" at once, and its mutex
    xfer             \* host side of a chunked transfer from array "a" into array "b"

vars == <<overflow_checks, arr, ret, ser, cnt, thr, xfer>>

---------------------------------------------------------------------------
(* 64-bit integers as bit sets.                                            *)

WORD_BITS == 64

Bits == 0 .. (WORD_BITS - 1)

\* positions a natural of the model can hold (TLC integers are 32-bit signed)
NatBits == 0 .. 30

Pow2(n) == 2 ^ n

\* the usize / u64 with value n
Usize(n) == {b \in NatBits : (n \div Pow2(b)) % 2 = 1}

Fits(w) == w \subseteq NatBits

RECURSIVE ToNat(_)
ToNat(w) ==
    IF w = {} THEN 0
    ELSE LET b == CHOOSE x \in w : TRUE IN Pow2(b) + ToNat(w \ {b})

Shl(w, k) == {b + k : b \in {x \in w : x + k < WORD_BITS}}
Shr(w, k) == {b - k : b \in {x \in w : x >= k}}
BitOr(a, b) == a \cup b
BitAnd(a, b) == a \cap b
BitNot(a) == Bits \ a

\* Popcount with a fault, to test that the properties notice it: the top bit is not counted
PopcountLow(w) == Cardinality(w \ {63})

\* u64::count_ones
Popcount(w) == Cardinality(w)

\* `w as u8`: the low 8 bits, as a byte value 0..255
AsU8(w) == ToNat(w \cap (0 .. 7))

\* U64FromU8 with a fault, to test that the properties notice it: the top bit of the byte is lost
U64FromI8(b) == {k \in 0 .. 6 : (b \div Pow2(k)) % 2 = 1}

\* `b as u64` for a byte b: the 8 bits of b, zero-extended
U64FromU8(b) == {k \in 0 .. 7 : (b \div Pow2(k)) % 2 = 1}

\* bits i..63 of a + b + carry, with position 64 standing for the carry out
RECURSIVE AddFrom(_, _, _, _)
AddFrom(a, b, i, c) ==
    IF i = WORD_BITS THEN (IF c THEN {WORD_BITS} ELSE {})
    ELSE LET x == i \in a
             y == i \in b
             s == ((x # y) # c)
             co == (x /\ y) \/ (c /\ (x \/ y))
         IN  (IF s THEN {i} ELSE {}) \cup AddFrom(a, b, i + 1, co)

\* a + b modulo 2^64, and whether the sum left 64 bits; words with no position
\* set in both add without a carry, to their union
wrapping_add(a, b) ==
    IF a \cap b = {} THEN a \cup b ELSE AddFrom(a, b, 0, FALSE) \cap Bits
add_overflows(a, b) == a \cap b # {} /\ WORD_BITS \in AddFrom(a, b, 0, FALSE)

\* a - b modulo 2^64 (two's complement)
wrapping_sub(a, b) == AddFrom(a, BitNot(b), 0, TRUE) \cap Bits

\* sign of a word read as isize
Negative(w) == (WORD_BITS - 1) \in w

\* isize subtraction leaves the isize range
isize_sub_overflows(a, b) ==
    /\ Negative(a) # Negative(b)
    /\ Negative(wrapping_sub(a, b)) # Negative(a)

Max(S) == CHOOSE x \in S : \A y \in S : y <= x

\* unsigned and signed comparison
ULt(a, b) == a # b /\ Max((a \ b) \cup (b \ a)) \in b
ULe(a, b) == a = b \/ ULt(a, b)
SLt(a, b) == IF Negative(a) # Negative(b) THEN Negative(a) ELSE ULt(a, b)
SLe(a, b) == a = b \/ SLt(a, b)

\* a * b: the wrapped product and whether the true product left 64 bits
RECURSIVE Mul(_, _)
Mul(a, b) ==
    IF b = {} THEN [v |-> {}, of |-> FALSE]
    ELSE LET k == CHOOSE x \in b : TRUE
             r == Mul(a, b \ {k})
             t == Shl(a, k)
         IN  [v  |-> wrapping_add(r.v, t),
              of |-> r.of \/ (\E x \in a : x + k >= WORD_BITS)
                          \/ add_overflows(r.v, t)]

\* a / d and a % d for d a power of two
Log2(d) == CHOOSE k \in NatBits : Pow2(k) = d
UDiv(a, d) == Shr(a, Log2(d))
URem(a, d) == a \cap (0 .. (Log2(d) - 1))

\* usize::saturating_sub
saturating_sub(a, b) == IF ULe(a, b) THEN {} ELSE wrapping_sub(a, b)

\* sum of f(i) over lo..hi, by halving
RECURSIVE SumRange(_, _, _)
SumRange(f, lo, hi) ==
    IF lo > hi THEN 0
    ELSE IF lo = hi THEN f[lo]
    ELSE LET mid == (lo + hi) \div 2
         IN  SumRange(f, lo, mid) + SumRange(f, mid + 1, hi)

---------------------------------------------------------------------------
(* The resource.                                                           *)

CHUNK_SIZE_U64 == 1024

Handles == {"a", "b"}

NoResource == [exists |-> FALSE, data |-> <<>>, more |-> {}, poisoned |-> FALSE]

\* struct BitArray { data: Mutex<Box<[u64]>> }; the mutex carries its poison flag
BitArray(words, more, poison) ==
    [exists |-> TRUE, data |-> words, more |-> more, poisoned |-> poison]

\* arrays of up to MaxWritten words have every word written out in data
MaxWritten == 65536

\* n words that are zero
Zeros(n) == [i \in 1 .. n |-> {}]

\* data.len() of the array v, a usize
vec_len(v) ==
    IF v.more = {} THEN Usize(Len(v.data))
    ELSE wrapping_add(Usize(Len(v.data)), v.more)

\* the words of v from the first one up to word n - 1, or up to the last one it
\* has: the ones a call can index that reaches no further than word n - 1.  They
\* are all the words of an array that is written out whole.
Held(v, n) ==
    IF v.more = {} \/ n <= Len(v.data) THEN v.data
    ELSE v.data \o Zeros(IF ULe(Usize(n - Len(v.data)), v.more)
                         THEN n - Len(v.data) ELSE ToNat(v.more))

\* the array of len words that begins with the words given and has zero words
\* after them, as the model writes it
Written(words, len) ==
    LET last == IF ULe(len, Usize(MaxWritten)) THEN Len(words)
                ELSE CHOOSE i \in 0 .. Len(words) :
                        /\ i = 0 \/ words[i] # {}
                        /\ \A j \in (i + 1) .. Len(words) : words[j] = {}
    IN  [data |-> SubSeq(words, 1, last),
         more |-> wrapping_sub(len, Usize(last))]

\* the array v with its first words replaced by the words given, which are at
\* least those v has in data
Kept(v, words) ==
    IF v.more = {} /\ Len(v.data) <= MaxWritten THEN [data |-> words, more |-> {}]
    ELSE Written(words, vec_len(v))

\* a process has 2^ADDRESS_BITS bytes of addresses (x86-64 Linux): no request for
\* that many bytes or more is met
ADDRESS_BITS == 47

\* What the allocator may answer (TRUE: the memory, FALSE: none) to a request for
\* n elements of elem bytes.  A request of more bytes than the process has
\* addresses for is never met; whether any other is met depends on the memory
\* the machine has left.
CanAlloc(n, elem) ==
    LET bytes == Mul(n, Usize(elem))
    IN  IF bytes.of \/ bytes.v \cap (ADDRESS_BITS .. (WORD_BITS - 1)) # {}
        THEN {FALSE} ELSE BOOLEAN

\* the answers to vec![0; n] of new: a vector of no words asks for no memory
vec_allocs(n) == IF n = {} THEN {TRUE} ELSE CanAlloc(n, 8)

\* What the allocator may answer to a call whose body ends as r: a panic asks for
\* the memory of its payload, no other end asks for any.
PanicAllocs(r) == IF r.outcome = "panic" THEN BOOLEAN ELSE {TRUE}

\* how the call whose body ends as r is over, alloc being the allocator's answer
\* to the panic: without the memory handle_alloc_error aborts the process
Unwind(r, alloc) ==
    IF r.outcome = "panic" /\ ~alloc THEN [r EXCEPT !.outcome = "abort"] ELSE r

\* the ways the call whose body ends as r may be over
Ends(r) == {Unwind(r, alloc) : alloc \in PanicAllocs(r)}

\* i64 addition leaves the i64 range
i64_add_overflows(a, b) ==
    /\ Negative(a) = Negative(b)
    /\ Negative(wrapping_add(a, b)) # Negative(a)

\* fn add(a: i64, b: i64): a + b on the two's complement words a and b
add(a, b, oc) ==
    IF oc /\ i64_add_overflows(a, b)
    THEN [outcome |-> "panic"]
    ELSE [outcome |-> "ok", value |-> wrapping_add(a, b)]

\* fn sub(a: i64, b: i64): a - b
sub(a, b, oc) ==
    IF oc /\ isize_sub_overflows(a, b)
    THEN [outcome |-> "panic"]
    ELSE [outcome |-> "ok", value |-> wrapping_sub(a, b)]

\* (length + 63) / 64, the number of words new asks for (the sum wraps when
\* overflow is not checked)
new_len(length) == UDiv(wrapping_add(length, Usize(63)), 64)

\* fn new(length: usize); alloc is the allocator's answer to vec![0; n].  Without
\* the memory handle_alloc_error aborts the process.
new(length, oc, alloc) ==
    LET n == new_len(length)
    IN  IF oc /\ add_overflows(length, Usize(63))
        THEN [outcome |-> "panic"]
        ELSE IF ~alloc
        THEN [outcome |-> "abort"]
        ELSE [outcome |-> "ok",
              resource |-> IF ULe(n, Usize(MaxWritten))
                           THEN BitArray(Zeros(ToNat(n)), {}, FALSE)
                           ELSE BitArray(<<>>, n, FALSE)]

\* set_bit with a fault, to test that the properties notice it: assigns the mask instead of ORing it in
set_bit_assign(word, n) == Shl({0}, n)

\* word |= 1 << n
set_bit(word, n) == BitOr(word, Shl({0}, n))

\* clear_bit with a fault, to test that the properties notice it: the mask is not inverted
clear_bit_no_not(word, n) == BitAnd(word, Shl({0}, n))

\* word &= !(1 << n)
clear_bit(word, n) == BitAnd(word, BitNot(Shl({0}, n)))

\* fn put: the body after the lock is taken, on the array v
put(v, index, value) ==
    LET vec == Held(v, index \div 64 + 1)
    IN  IF index \div 64 >= Len(vec)
        THEN [outcome |-> "panic", data |-> v.data, more |-> v.more]
        ELSE LET word == vec[index \div 64 + 1]
                 w2   == IF value THEN set_bit(word, index % 64)
                                  ELSE clear_bit(word, index % 64)
                 kept == Kept(v, [vec EXCEPT ![index \div 64 + 1] = w2])
             IN  [outcome |-> "ok", data |-> kept.data, more |-> kept.more]

\* fn get
get(v, index) ==
    LET data == Held(v, index \div 64 + 1)
    IN  IF index \div 64 >= Len(data)
        THEN [outcome |-> "panic"]
        ELSE [outcome |-> "ok",
              value |-> BitAnd(data[index \div 64 + 1], Shl({0}, index % 64)) # {}]

\* count_ones with a fault, to test that the properties notice it: the last word is left out
count_ones_short(v) ==
    SumRange([i \in 1 .. Len(v.data) |-> Popcount(v.data[i])], 1, Len(v.data) - 1)

\* fn count_ones: the sum over every word; the words after those in data are zero
count_ones(v) ==
    SumRange([i \in 1 .. Len(v.data) |-> Popcount(v.data[i])], 1, Len(v.data))

\* fn bit_length: data.len() * 64, a usize
bit_length(v) == Mul(vec_len(v), Usize(64)).v


\* the cursor a chunk call returns: the atom eof, or the next chunk number
EofCursor == [eof |-> TRUE, next |-> {}]
NextCursor(n) == [eof |-> FALSE, next |-> n]

\* ChunkByte with a fault, to test that the properties notice it: most significant byte first
ChunkByteBE(data, offset, i) ==
    LET x == i \div 8
        y == i % 8
    IN  AsU8(Shr(data[x + offset + 1], (7 - y) * 8))

\* byte i (0-based) of the buffer to_bin_chunked fills for `size` words at `offset`:
\* bin[x * 8 + y] = (data[x + offset] >> (y * 8)) as u8
ChunkByte(data, offset, i) ==
    LET x == i \div 8
        y == i % 8
    IN  AsU8(Shr(data[x + offset + 1], y * 8))

\* bin_is_eof with a fault, to test that the properties notice it: a full last chunk is not the end
bin_is_eof_lt(reminding) == SLt(reminding, Usize(CHUNK_SIZE_U64))

\* let is_eof = reminding <= (CHUNK_SIZE_U64 as isize)
bin_is_eof(reminding) == SLe(reminding, Usize(CHUNK_SIZE_U64))

\* std::cmp::min(CHUNK_SIZE_U64 as isize, reminding) as usize
bin_size(reminding) ==
    IF SLe(Usize(CHUNK_SIZE_U64), reminding) THEN Usize(CHUNK_SIZE_U64) ELSE reminding

\* let erl_bin_size = size * 8, as to_bin_chunked computes it when it gets there
erl_bin_size_of(v, chunk_num) ==
    LET offset    == Mul(chunk_num, Usize(CHUNK_SIZE_U64)).v
        reminding == wrapping_sub(vec_len(v), offset)
    IN  Mul(bin_size(reminding), Usize(8)).v

\* what the allocator may answer to to_bin_chunked, as <<alloc, alloc_err>>: alloc
\* to OwnedBinary::new(erl_bin_size), which asks for the binary's header even when
\* it has no bytes, and alloc_err to the Box::new of the error term, which is only
\* asked for when the binary was refused
bin_allocs(v, chunk_num) ==
    {<<alloc, TRUE>> : alloc \in CanAlloc(erl_bin_size_of(v, chunk_num), 1)}
       \cup {<<FALSE, FALSE>>}

\* fn to_bin_chunked: the body after the lock is taken; alloc is the allocator's
\* answer to OwnedBinary::new(erl_bin_size) and alloc_err its answer to the Box::new
\* of the error term.  Without the memory for the box handle_alloc_error aborts the
\* process.
to_bin_chunked(v, chunk_num, oc, alloc, alloc_err) ==
    LET len       == vec_len(v)
        chunk     == Usize(CHUNK_SIZE_U64)
        off       == Mul(chunk_num, chunk)
        offset    == off.v
        reminding == wrapping_sub(len, offset)
        size      == bin_size(reminding)
        is_eof    == bin_is_eof(reminding)
        bs        == Mul(size, Usize(8))
        erl_bin_size == bs.v
        end       == wrapping_add(offset, size)
        \* the loop indexes data[x + offset] and bin[x * 8 + y] for x < size
        in_range  == \/ size = {}
                     \/ /\ ~add_overflows(offset, size)
                        /\ ULe(end, len)
                        /\ ~bs.of
        \* the words of the chunk are zero when no natural of the model reaches them
        reached   == Fits(end)
        data      == Held(v, ToNat(end))
        first     == ToNat(offset)
        byte(i)   == IF reached THEN ChunkByte(data, first, i) ELSE 0
        next      == wrapping_add(chunk_num, Usize(1))
    IN  IF oc /\ (off.of \/ isize_sub_overflows(len, offset) \/ bs.of)
        THEN [outcome |-> "panic"]
        ELSE IF ~alloc
        THEN [outcome |-> IF alloc_err THEN "error" ELSE "abort"]
        ELSE IF ~in_range
        THEN [outcome |-> "panic"]
        ELSE IF is_eof
        THEN [outcome |-> "ok", cursor |-> EofCursor,
              bin |-> [i \in 1 .. ToNat(erl_bin_size) |-> byte(i - 1)]]
        ELSE IF oc /\ add_overflows(chunk_num, Usize(1))
        THEN [outcome |-> "panic"]
        ELSE [outcome |-> "ok", cursor |-> NextCursor(next),
              bin |-> [i \in 1 .. ToNat(erl_bin_size) |-> byte(i - 1)]]

\* data_index with a fault, to test that the properties notice it: byte_offset is not added
data_index_of_x(x, byte_offset) == x \div 8

\* let data_index = (x + byte_offset) / 8
data_index(x, byte_offset) == (x + byte_offset) \div 8

\* bin_offset with a fault, to test that the properties notice it: the lane is taken from the position in the buffer
bin_offset_of_x(x, byte_offset) == x % 8

\* let bin_offset = (x + byte_offset) % 8
bin_offset(x, byte_offset) == (x + byte_offset) % 8

\* what the first `applied` iterations of or_chunk's loop OR into word w (0-based):
\* data[data_index] |= (bin[x] as u64) << (bin_offset * 8) for the x with
\* data_index = w, which lie within 7 of 8 * w - byte_offset
LanesInto(bin, byte_offset, applied, w) ==
    UNION {Shl(U64FromU8(bin[x + 1]), bin_offset(x, byte_offset) * 8) :
             x \in {x \in (8 * w - byte_offset - 7) .. (8 * w - byte_offset + 7) :
                      /\ x >= 0 /\ x < applied
                      /\ data_index(x, byte_offset) = w}}

\* fn or_chunk: the body after the lock is taken.  The loop panics at the first
\* byte whose word index is out of range; the bytes before it are already merged.
\* With no byte in bin the loop does not run and nothing is indexed.
or_chunk(v, bin, byte_offset) ==
    LET data    == Held(v, data_index(Len(bin), byte_offset) + 1)
        cap     == 8 * Len(data)
        fits    == Len(bin) = 0 \/ byte_offset + Len(bin) <= cap
        applied == IF fits THEN Len(bin)
                   ELSE IF byte_offset >= cap THEN 0 ELSE cap - byte_offset
        merged  == [i \in 1 .. Len(data) |->
                      BitOr(data[i], LanesInto(bin, byte_offset, applied, i - 1))]
        kept    == Kept(v, merged)
    IN  IF fits
        THEN [outcome |-> "ok", data |-> kept.data, more |-> kept.more,
              value |-> byte_offset + Len(bin)]
        ELSE [outcome |-> "panic", data |-> kept.data, more |-> kept.more]

\* chunk_count with a fault, to test that the properties notice it: the chunk's offset is not added to the word index
chunk_count_no_offset(data, offset, size) ==
    IF size = 0 THEN 0
    ELSE SumRange([x \in 0 .. (size - 1) |-> Popcount(data[x + 1])], 0, size - 1)

\* for x in 0..size { count += data[x + offset].count_ones() as usize; }
chunk_count(data, offset, size) ==
    IF size = 0 THEN 0
    ELSE SumRange([x \in 0 .. (size - 1) |-> Popcount(data[x + offset + 1])],
                  0, size - 1)

\* count_size with a fault, to test that the properties notice it: no min with CHUNK_SIZE_U64
count_size_all(remaining) == remaining

\* cmp::min(CHUNK_SIZE_U64, remaining)
count_size(remaining) ==
    IF ULe(Usize(CHUNK_SIZE_U64), remaining) THEN Usize(CHUNK_SIZE_U64) ELSE remaining

\* fn count_ones_chunked: the body after the lock is taken
count_ones_chunked(v, chunk_num, oc) ==
    LET len       == vec_len(v)
        chunk     == Usize(CHUNK_SIZE_U64)
        off       == Mul(chunk_num, chunk)
        offset    == off.v
        remaining == saturating_sub(len, offset)
        size      == count_size(remaining)
        is_eof    == ULe(remaining, chunk)
        end       == wrapping_add(offset, size)
        \* the words of the chunk are zero when no natural of the model reaches them
        data      == Held(v, ToNat(end))
        count     == IF size = {} \/ ~Fits(end) THEN 0
                     ELSE chunk_count(data, ToNat(offset), ToNat(size))
        next      == wrapping_add(chunk_num, Usize(1))
    IN  IF oc /\ off.of
        THEN [outcome |-> "panic"]
        ELSE IF is_eof
        THEN [outcome |-> "ok", cursor |-> EofCursor, count |-> count]
        ELSE IF oc /\ add_overflows(chunk_num, Usize(1))
        THEN [outcome |-> "panic"]
        ELSE [outcome |-> "ok", cursor |-> NextCursor(next), count |-> count]

---------------------------------------------------------------------------
(* The host's calls.  Every NIF takes the lock first                       *)
(* (resource.data.lock().unwrap()): on a poisoned mutex the unwrap panics, *)
(* and a panic while the guard is held poisons the mutex.  Each action     *)
(* binds the result r of the one call it makes.                            *)

\* host side of a scan: state is "idle", "run" (a cursor is pending), "eof",
\* "failed" (a call panicked) or "refused" (a call had no memory, and the host
\* gave up what it had gathered); clean records that the array was not changed since the scan began,
\* start is count_ones of the array when the count scan began
IdleSer == [state |-> "idle", h |-> "a", cursor |-> {}, out |-> <<>>,
            calls |-> 0, clean |-> TRUE]
IdleCnt == [state |-> "idle", h |-> "a", cursor |-> {}, total |-> 0,
            calls |-> 0, clean |-> TRUE, start |-> 0]

\* the threads and the mutex of array "a".  A thread is at "idle", at "lock"
\* (blocked in resource.data.lock()), in the "body" of the NIF, or at "ret" (the
\* body is over and the call is about to return, dropping the guard if it has it)
Threads == {"t1", "t2"}

NoCall == [op |-> "none"]

IdleThread == [pc |-> "idle", c |-> NoCall, guard |-> FALSE,
               mem |-> <<TRUE, TRUE, TRUE>>,
               x |-> 0, acc |-> <<>>, res |-> NoCall, expect |-> NoCall]

\* locked: the mutex is held; atomic: the array as the calls leave it when each one
\* runs whole, in the order in which they took the lock
IdleThreads == [locked |-> FALSE, t |-> [t \in Threads |-> IdleThread],
                atomic |-> [data |-> <<>>, more |-> {}, poisoned |-> FALSE],
                dead |-> FALSE]

\* host side of a transfer: the serialize cursor on "a" (state "run" while one is
\* pending, "eof" after the last chunk), the bytes received and not yet merged, the
\* merge cursor on "b" and the number of or_chunk calls made; from is "a" and into
\* is "b" as they were when the transfer began
IdleXfer == [state |-> "idle", cursor |-> {}, buf |-> <<>>, off |-> 0,
             pieces |-> 0, from |-> <<>>, into |-> <<>>]

Touch(scan, h, changed) ==
    IF scan.state # "idle" /\ scan.h = h /\ changed
    THEN [scan EXCEPT !.clean = FALSE]
    ELSE scan

\* handle_alloc_error has aborted the process, in a call of the host or in a
\* thread (new, to_bin_chunked or a panic got no memory): no call follows
Killed == (ret.op # "none" /\ ret.outcome = "abort") \/ thr.dead

\* the process is gone, with every array and all that its host held
Gone(dead_thr) ==
    /\ arr' = [g \in Handles |-> NoResource]
    /\ ser' = IdleSer
    /\ cnt' = IdleCnt
    /\ thr' = dead_thr
    /\ xfer' = IdleXfer

Init ==
    /\ overflow_checks \in BOOLEAN
    /\ arr = [h \in Handles |-> NoResource]
    /\ ret = [op |-> "none"]
    /\ ser = IdleSer
    /\ cnt = IdleCnt
    /\ thr = IdleThreads
    /\ xfer = IdleXfer

\* add and sub take no array and no lock
Add(a, b) ==
    /\ ~Killed
    /\ \E r \in Ends(add(a, b, overflow_checks)) :
           /\ ret' = [op |-> "add", a |-> a, b |-> b] @@ r
           /\ IF r.outcome = "abort" THEN Gone(IdleThreads)
              ELSE UNCHANGED <<arr, ser, cnt, thr, xfer>>
    /\ UNCHANGED overflow_checks

Sub(a, b) ==
    /\ ~Killed
    /\ \E r \in Ends(sub(a, b, overflow_checks)) :
           /\ ret' = [op |-> "sub", a |-> a, b |-> b] @@ r
           /\ IF r.outcome = "abort" THEN Gone(IdleThreads)
              ELSE UNCHANGED <<arr, ser, cnt, thr, xfer>>
    /\ UNCHANGED overflow_checks

New(h, length) ==
    /\ ~Killed
    /\ ~arr[h].exists
    /\ \E alloc \in vec_allocs(new_len(length)) :
       \E r \in Ends(new(length, overflow_checks, alloc)) :
           /\ ret' = [op |-> "new", h |-> h, length |-> length,
                      outcome |-> r.outcome]
           /\ IF r.outcome = "abort" THEN Gone(IdleThreads)
              ELSE /\ arr' = IF r.outcome = "ok" THEN [arr EXCEPT ![h] = r.resource]
                              ELSE arr
                   /\ UNCHANGED <<ser, cnt, thr, xfer>>
    /\ UNCHANGED overflow_checks

Put(h, index, value) ==
    /\ ~Killed
    /\ arr[h].exists
    /\ \E r \in Ends(IF arr[h].poisoned
                     THEN [outcome |-> "panic", data |-> arr[h].data,
                           more |-> arr[h].more]
                     ELSE put(arr[h], index, value)) :
           /\ ret' = [op |-> "put", h |-> h, index |-> index, value |-> value,
                      outcome |-> r.outcome]
           /\ IF r.outcome = "abort" THEN Gone(IdleThreads)
              ELSE /\ arr' = [arr EXCEPT ![h] =
                                BitArray(r.data, r.more,
                                         @.poisoned \/ r.outcome = "panic")]
                   /\ ser' = Touch(ser, h, r.data # arr[h].data)
                   /\ cnt' = Touch(cnt, h, r.data # arr[h].data)
                   /\ UNCHANGED <<thr, xfer>>
    /\ UNCHANGED overflow_checks

Get(h, index) ==
    /\ ~Killed
    /\ arr[h].exists
    /\ \E r \in Ends(IF arr[h].poisoned THEN [outcome |-> "panic"]
                     ELSE get(arr[h], index)) :
           /\ ret' = [op |-> "get", h |-> h, index |-> index] @@ r
           /\ IF r.outcome = "abort" THEN Gone(IdleThreads)
              ELSE /\ arr' = [arr EXCEPT ![h].poisoned = @ \/ r.outcome = "panic"]
                   /\ UNCHANGED <<ser, cnt, thr, xfer>>
    /\ UNCHANGED overflow_checks

CountOnes(h) ==
    /\ ~Killed
    /\ arr[h].exists
    /\ \E r \in Ends(IF arr[h].poisoned THEN [outcome |-> "panic"]
                     ELSE [outcome |-> "ok", value |-> count_ones(arr[h])]) :
           /\ ret' = [op |-> "count_ones", h |-> h] @@ r
           /\ IF r.outcome = "abort" THEN Gone(IdleThreads)
              ELSE UNCHANGED <<arr, ser, cnt, thr, xfer>>
    /\ UNCHANGED overflow_checks

BitLength(h) ==
    /\ ~Killed
    /\ arr[h].exists
    /\ \E r \in Ends(IF arr[h].poisoned THEN [outcome |-> "panic"]
                     ELSE [outcome |-> "ok", value |-> bit_length(arr[h])]) :
           /\ ret' = [op |-> "bit_length", h |-> h] @@ r
           /\ IF r.outcome = "abort" THEN Gone(IdleThreads)
              ELSE UNCHANGED <<arr, ser, cnt, thr, xfer>>
    /\ UNCHANGED overflow_checks

\* one to_bin_chunked call with any chunk number
ToBinChunked(h, chunk_num) ==
    /\ ~Killed
    /\ arr[h].exists
    /\ \E mem \in bin_allocs(arr[h], chunk_num) :
       \E r \in Ends(IF arr[h].poisoned THEN [outcome |-> "panic"]
                     ELSE to_bin_chunked(arr[h], chunk_num, overflow_checks,
                                         mem[1], mem[2])) :
           /\ ret' = [op |-> "to_bin_chunked", h |-> h, chunk_num |-> chunk_num] @@ r
           /\ IF r.outcome = "abort" THEN Gone(IdleThreads)
              ELSE /\ arr' = [arr EXCEPT ![h].poisoned = @ \/ r.outcome = "panic"]
                   /\ UNCHANGED <<ser, cnt, thr, xfer>>
    /\ UNCHANGED overflow_checks

\* the next call of a cursor-driven serialization: chunk 0 when no cursor is
\* pending, else the chunk the last call returned; the host appends the buffer
SerializeScan(h) ==
    /\ ~Killed
    /\ arr[h].exists
    /\ ser.state = "run" => ser.h = h
    /\ LET prev == IF ser.state = "run" THEN ser
                   ELSE [IdleSer EXCEPT !.h = h]
       IN  \E mem \in bin_allocs(arr[h], prev.cursor) :
           \E r \in Ends(IF arr[h].poisoned THEN [outcome |-> "panic"]
                         ELSE to_bin_chunked(arr[h], prev.cursor,
                                             overflow_checks, mem[1], mem[2])) :
           /\ ret' = [op |-> "to_bin_chunked", h |-> h,
                      chunk_num |-> prev.cursor] @@ r
           /\ IF r.outcome = "abort" THEN Gone(IdleThreads)
              ELSE /\ arr' = [arr EXCEPT ![h].poisoned = @ \/ r.outcome = "panic"]
                   /\ ser' = IF r.outcome = "ok"
                             THEN [state  |-> IF r.cursor.eof THEN "eof" ELSE "run",
                                   h      |-> h,
                                   cursor |-> r.cursor.next,
                                   out    |-> prev.out \o r.bin,
                                   calls  |-> prev.calls + 1,
                                   clean  |-> prev.clean]
                             ELSE IF r.outcome = "panic"
                             THEN [prev EXCEPT !.state = "failed"]
                             ELSE [IdleSer EXCEPT !.state = "refused", !.h = h]
                   /\ UNCHANGED <<cnt, thr, xfer>>
    /\ UNCHANGED overflow_checks

OrChunk(h, bin, byte_offset) ==
    /\ ~Killed
    /\ arr[h].exists
    /\ \E r \in Ends(IF arr[h].poisoned
                     THEN [outcome |-> "panic", data |-> arr[h].data,
                           more |-> arr[h].more]
                     ELSE or_chunk(arr[h], bin, byte_offset)) :
           /\ ret' = [op |-> "or_chunk", h |-> h, bin |-> bin,
                      byte_offset |-> byte_offset] @@ [x \in {"outcome", "value"} \cap DOMAIN r |-> r[x]]
           /\ IF r.outcome = "abort" THEN Gone(IdleThreads)
              ELSE /\ arr' = [arr EXCEPT ![h] =
                                BitArray(r.data, r.more,
                                         @.poisoned \/ r.outcome = "panic")]
                   /\ ser' = Touch(ser, h, r.data # arr[h].data)
                   /\ cnt' = Touch(cnt, h, r.data # arr[h].data)
                   /\ UNCHANGED <<thr, xfer>>
    /\ UNCHANGED overflow_checks

\* one count_ones_chunked call with any chunk number
CountOnesChunked(h, chunk_num) ==
    /\ ~Killed
    /\ arr[h].exists
    /\ \E r \in Ends(IF arr[h].poisoned THEN [outcome |-> "panic"]
                     ELSE count_ones_chunked(arr[h], chunk_num,
                                             overflow_checks)) :
           /\ ret' = [op |-> "count_ones_chunked", h |-> h,
                      chunk_num |-> chunk_num] @@ r
           /\ IF r.outcome = "abort" THEN Gone(IdleThreads)
              ELSE /\ arr' = [arr EXCEPT ![h].poisoned = @ \/ r.outcome = "panic"]
                   /\ UNCHANGED <<ser, cnt, thr, xfer>>
    /\ UNCHANGED overflow_checks

\* the next call of a cursor-driven count: the host adds up the partial counts
CountOnesScan(h) ==
    /\ ~Killed
    /\ arr[h].exists
    /\ cnt.state = "run" => cnt.h = h
    /\ LET prev == IF cnt.state = "run" THEN cnt
                   ELSE [IdleCnt EXCEPT !.h = h,
                                        !.start = count_ones(arr[h])]
       IN  \E r \in Ends(IF arr[h].poisoned THEN [outcome |-> "panic"]
                         ELSE count_ones_chunked(arr[h], prev.cursor,
                                                 overflow_checks)) :
           /\ ret' = [op |-> "count_ones_chunked", h |-> h,
                      chunk_num |-> prev.cursor] @@ r
           /\ IF r.outcome = "abort" THEN Gone(IdleThreads)
              ELSE /\ arr' = [arr EXCEPT ![h].poisoned = @ \/ r.outcome = "panic"]
                   /\ cnt' = IF r.outcome = "ok"
                             THEN [state  |-> IF r.cursor.eof THEN "eof" ELSE "run",
                                   h      |-> h,
                                   cursor |-> r.cursor.next,
                                   total  |-> prev.total + r.count,
                                   calls  |-> prev.calls + 1,
                                   clean  |-> prev.clean,
                                   start  |-> prev.start]
                             ELSE [prev EXCEPT !.state = "failed"]
                   /\ UNCHANGED <<ser, thr, xfer>>
    /\ UNCHANGED overflow_checks

---------------------------------------------------------------------------
(* Threads.  The same NIFs, on array "a", one statement or loop iteration  *)
(* at a time: what the mutex has to keep apart.                            *)

\* lock_free with a fault, to test that the properties notice it: lock() never waits
lock_never_waits(locked) == TRUE

\* Mutex::lock returns when the mutex is not held
lock_free(locked) == ~locked

\* the body of the call c run whole on the array g = [data, more, poisoned], with
\* the allocator answering mem to to_bin_chunked: how it ends and the words it
\* leaves
RunBody(c, g, oc, mem) ==
    IF g.poisoned
    THEN [res |-> [outcome |-> "panic"], data |-> g.data, more |-> g.more]
    ELSE CASE c.op = "put" ->
                LET r == put(g, c.index, c.value)
                IN  [res |-> [outcome |-> r.outcome], data |-> r.data,
                     more |-> r.more]
           [] c.op = "get" ->
                [res |-> get(g, c.index), data |-> g.data, more |-> g.more]
           [] c.op = "count_ones" ->
                [res |-> [outcome |-> "ok", value |-> count_ones(g)],
                 data |-> g.data, more |-> g.more]
           [] c.op = "to_bin_chunked" ->
                [res |-> to_bin_chunked(g, c.chunk_num, oc, mem[1], mem[2]),
                 data |-> g.data, more |-> g.more]
           [] c.op = "or_chunk" ->
                LET r == or_chunk(g, c.bin, c.byte_offset)
                IN  [res |-> [x \in {"outcome", "value"} \cap DOMAIN r |-> r[x]],
                     data |-> r.data, more |-> r.more]
           [] c.op = "count_ones_chunked" ->
                [res |-> count_ones_chunked(g, c.chunk_num, oc),
                 data |-> g.data, more |-> g.more]

\* what the allocator may answer to the call c on the array g, as <<alloc,
\* alloc_err, alloc_panic>>: the first two to to_bin_chunked, the one call that
\* allocates in its body, and the last to the panic of a call that panics
CallAllocs(c, g, oc) ==
    UNION {{<<m[1], m[2], alloc>> : alloc \in PanicAllocs(RunBody(c, g, oc, m).res)} :
             m \in IF c.op = "to_bin_chunked" THEN bin_allocs(g, c.chunk_num)
                   ELSE {<<TRUE, TRUE>>}}

\* the call c run whole on the array g with the allocator answering mem: its
\* result and the words it leaves
RunWhole(c, g, oc, mem) ==
    LET w == RunBody(c, g, oc, mem)
    IN  [res |-> Unwind(w.res, mem[3]), data |-> w.data, more |-> w.more]

\* a thread enters a NIF with the arguments of c
ThreadCall(t, c) ==
    /\ ~Killed
    /\ arr["a"].exists
    /\ thr.t[t].pc = "idle"
    /\ thr' = [thr EXCEPT
                 !.t[t] = [IdleThread EXCEPT !.pc = "lock", !.c = c],
                 !.atomic = IF \A u \in Threads : thr.t[u].pc = "idle"
                            THEN [data |-> arr["a"].data,
                                  more |-> arr["a"].more,
                                  poisoned |-> arr["a"].poisoned]
                            ELSE @]
    /\ UNCHANGED <<overflow_checks, arr, ret, ser, cnt, xfer>>

\* resource.data.lock().unwrap(): waits for the mutex; on a poisoned mutex the
\* unwrap panics and the guard inside the error is dropped at once
ThreadLock(t) ==
    /\ ~Killed
    /\ thr.t[t].pc = "lock"
    /\ lock_free(thr.locked)
    /\ \E mem \in CallAllocs(thr.t[t].c, thr.atomic, overflow_checks) :
       \E w \in {RunWhole(thr.t[t].c, thr.atomic, overflow_checks, mem)} :
       \E r \in {Unwind([outcome |-> "panic"], mem[3])} :
         IF arr["a"].poisoned /\ r.outcome = "abort"
         THEN Gone([IdleThreads EXCEPT !.dead = TRUE])
         ELSE /\ thr' = [thr EXCEPT
                          !.locked = ~arr["a"].poisoned,
                          !.t[t].guard = ~arr["a"].poisoned,
                          !.t[t].mem = mem,
                          !.t[t].pc = IF arr["a"].poisoned THEN "ret" ELSE "body",
                          !.t[t].res = IF arr["a"].poisoned THEN r ELSE @,
                          !.t[t].expect = w.res,
                          !.atomic = [data |-> w.data, more |-> w.more,
                                      poisoned |-> @.poisoned
                                                     \/ w.res.outcome = "panic"]]
              /\ UNCHANGED <<arr, ser, cnt, xfer>>
    /\ UNCHANGED <<overflow_checks, ret>>

\* the body of the thread's call ends as body, leaving the words of v; a panic
\* poisons the mutex it holds
Finish(t, body, v) ==
    \E r \in {Unwind(body, thr.t[t].mem[3])} :
      IF r.outcome = "abort" THEN Gone([IdleThreads EXCEPT !.dead = TRUE])
      ELSE /\ thr' = [thr EXCEPT !.t[t].pc = "ret", !.t[t].res = r]
           /\ arr' = [arr EXCEPT !["a"] =
                        BitArray(v.data, v.more, r.outcome = "panic")]
           /\ UNCHANGED <<ser, cnt, xfer>>

\* the thread goes on to the next statement or iteration, leaving the words of v
Continue(t, x, acc, v) ==
    /\ thr' = [thr EXCEPT !.t[t].x = x, !.t[t].acc = acc]
    /\ arr' = [arr EXCEPT !["a"].data = v.data, !["a"].more = v.more]
    /\ UNCHANGED <<ser, cnt, xfer>>

\* fn put, a statement at a time: let mut word = vec[index / 64]; then the update
\* of word and vec[index / 64] = word
PutStep(t) ==
    LET me   == thr.t[t]
        c    == me.c
        v    == arr["a"]
        i    == c.index \div 64
        vec  == Held(v, i + 1)
    IN  /\ c.op = "put"
        /\ IF me.x = 0
           THEN IF i >= Len(vec)
                THEN Finish(t, [outcome |-> "panic"], v)
                ELSE Continue(t, 1, <<vec[i + 1]>>, v)
           ELSE Finish(t, [outcome |-> "ok"],
                       Kept(v, [vec EXCEPT ![i + 1] =
                                  IF c.value THEN set_bit(me.acc[1], c.index % 64)
                                             ELSE clear_bit(me.acc[1], c.index % 64)]))

\* fn get
GetStep(t) ==
    /\ thr.t[t].c.op = "get"
    /\ Finish(t, get(arr["a"], thr.t[t].c.index), arr["a"])

\* fn count_ones, a word at a time
CountOnesStep(t) ==
    LET me   == thr.t[t]
        v    == arr["a"]
        data == Held(v, me.x + 1)
        sum  == IF me.x = 0 THEN 0 ELSE me.acc[1]
    IN  /\ me.c.op = "count_ones"
        /\ IF me.x < Len(data)
           THEN Continue(t, me.x + 1, <<sum + Popcount(data[me.x + 1])>>, v)
           ELSE Finish(t, [outcome |-> "ok", value |-> sum], v)

\* fn to_bin_chunked: the statements before the loop, which may fail, then the
\* loop over x a word (8 bytes) at a time
ToBinChunkedStep(t) ==
    LET me     == thr.t[t]
        v      == arr["a"]
        offset == Mul(me.c.chunk_num, Usize(CHUNK_SIZE_U64)).v
        size   == bin_size(wrapping_sub(vec_len(v), offset))
        end    == wrapping_add(offset, size)
        data   == Held(v, ToNat(end))
    IN  /\ me.c.op = "to_bin_chunked"
        /\ \E r \in {to_bin_chunked(v, me.c.chunk_num, overflow_checks,
                                    me.mem[1], me.mem[2])} :
             IF r.outcome # "ok"
             THEN Finish(t, r, v)
             ELSE IF me.x < ToNat(size)
             THEN Continue(t, me.x + 1,
                           me.acc \o [y \in 1 .. 8 |->
                              IF Fits(end)
                              THEN ChunkByte(data, ToNat(offset), 8 * me.x + y - 1)
                              ELSE 0],
                           v)
             ELSE Finish(t, [r EXCEPT !.bin = me.acc], v)

\* fn or_chunk, a byte at a time
OrChunkStep(t) ==
    LET me   == thr.t[t]
        c    == me.c
        v    == arr["a"]
        w    == data_index(me.x, c.byte_offset)
        data == Held(v, w + 1)
    IN  /\ c.op = "or_chunk"
        /\ IF me.x >= Len(c.bin)
           THEN Finish(t, [outcome |-> "ok", value |-> c.byte_offset + Len(c.bin)],
                       v)
           ELSE IF w >= Len(data)
           THEN Finish(t, [outcome |-> "panic"], v)
           ELSE Continue(t, me.x + 1, <<>>,
                         Kept(v, [data EXCEPT ![w + 1] =
                                    BitOr(@, Shl(U64FromU8(c.bin[me.x + 1]),
                                                 bin_offset(me.x, c.byte_offset) * 8))]))

\* fn count_ones_chunked: the statements before the loop, then a word at a time
CountOnesChunkedStep(t) ==
    LET me     == thr.t[t]
        v      == arr["a"]
        offset == Mul(me.c.chunk_num, Usize(CHUNK_SIZE_U64)).v
        size   == count_size(saturating_sub(vec_len(v), offset))
        end    == wrapping_add(offset, size)
        data   == Held(v, ToNat(end))
        sum    == IF me.x = 0 THEN 0 ELSE me.acc[1]
    IN  /\ me.c.op = "count_ones_chunked"
        /\ \E r \in {count_ones_chunked(v, me.c.chunk_num, overflow_checks)} :
             IF r.outcome # "ok"
             THEN Finish(t, r, v)
             ELSE IF me.x < ToNat(size)
             THEN Continue(t, me.x + 1,
                           <<sum + (IF Fits(end)
                                    THEN Popcount(data[me.x + ToNat(offset) + 1])
                                    ELSE 0)>>, v)
             ELSE Finish(t, [r EXCEPT !.count = sum], v)

\* one statement or iteration of the NIF the thread is in
ThreadStep(t) ==
    /\ ~Killed
    /\ thr.t[t].pc = "body"
    /\ \/ PutStep(t)
       \/ GetStep(t)
       \/ CountOnesStep(t)
       \/ ToBinChunkedStep(t)
       \/ OrChunkStep(t)
       \/ CountOnesChunkedStep(t)
    /\ UNCHANGED <<overflow_checks, ret>>

\* the NIF returns (or unwinds): the guard, if the thread has it, is dropped; the
\* result stays in the thread until its next call
ThreadReturn(t) ==
    /\ ~Killed
    /\ thr.t[t].pc = "ret"
    /\ thr' = [thr EXCEPT !.t[t].pc = "idle", !.t[t].guard = FALSE,
                          !.locked = IF thr.t[t].guard THEN FALSE ELSE @]
    /\ UNCHANGED <<overflow_checks, arr, ret, ser, cnt, xfer>>

---------------------------------------------------------------------------
(* A transfer: the host serializes "a" chunk by chunk and merges the bytes *)
(* into "b", passing each or_chunk the offset the one before returned.     *)

\* the next to_bin_chunked call on "a": chunk 0 to begin a transfer, else the chunk
\* the last call returned; the host keeps the bytes until it merges them
XferSerialize ==
    /\ ~Killed
    /\ arr["a"].exists /\ arr["b"].exists
    /\ vec_len(arr["a"]) = vec_len(arr["b"])
    /\ xfer.state \in {"idle", "run"}
    /\ LET prev == IF xfer.state = "run" THEN xfer
                   ELSE [IdleXfer EXCEPT !.from = arr["a"].data,
                                         !.into = arr["b"].data]
       IN  \E mem \in bin_allocs(arr["a"], prev.cursor) :
           \E r \in Ends(IF arr["a"].poisoned THEN [outcome |-> "panic"]
                         ELSE to_bin_chunked(arr["a"], prev.cursor,
                                             overflow_checks, mem[1], mem[2])) :
           /\ ret' = [op |-> "to_bin_chunked", h |-> "a",
                      chunk_num |-> prev.cursor] @@ r
           /\ IF r.outcome = "abort" THEN Gone(IdleThreads)
              ELSE /\ arr' = [arr EXCEPT !["a"].poisoned = @ \/ r.outcome = "panic"]
                   /\ xfer' = IF r.outcome = "ok"
                              THEN [prev EXCEPT
                                      !.state  = IF r.cursor.eof THEN "eof" ELSE "run",
                                      !.cursor = r.cursor.next,
                                      !.buf    = @ \o r.bin]
                              ELSE IF r.outcome = "panic"
                              THEN [prev EXCEPT !.state = "failed"]
                              ELSE [IdleXfer EXCEPT !.state = "refused"]
                   /\ UNCHANGED <<ser, cnt, thr>>
    /\ UNCHANGED overflow_checks

\* the next or_chunk call on "b": the first n bytes the host holds, at the offset
\* the last or_chunk returned (0 for the first)
XferMerge(n) ==
    /\ ~Killed
    /\ xfer.state \in {"run", "eof"}
    /\ n \in 1 .. Len(xfer.buf)
    /\ \E piece \in {SubSeq(xfer.buf, 1, n)} :
       \E r \in Ends(IF arr["b"].poisoned
                     THEN [outcome |-> "panic", data |-> arr["b"].data,
                           more |-> arr["b"].more]
                     ELSE or_chunk(arr["b"], piece, xfer.off)) :
           /\ ret' = [op |-> "or_chunk", h |-> "b", bin |-> piece,
                      byte_offset |-> xfer.off]
                        @@ [x \in {"outcome", "value"} \cap DOMAIN r |-> r[x]]
           /\ IF r.outcome = "abort" THEN Gone(IdleThreads)
              ELSE /\ arr' = [arr EXCEPT !["b"] =
                                BitArray(r.data, r.more,
                                         @.poisoned \/ r.outcome = "panic")]
                   /\ xfer' = IF r.outcome = "ok"
                              THEN [xfer EXCEPT
                                      !.buf    = SubSeq(@, n + 1, Len(@)),
                                      !.off    = r.value,
                                      !.pieces = @ + 1]
                              ELSE [xfer EXCEPT !.state = "failed"]
                   /\ UNCHANGED <<ser, cnt, thr>>
    /\ UNCHANGED overflow_checks

---------------------------------------------------------------------------
(* Inputs.                                                                 *)

\* arrays span up to MaxChunks full chunks, with or without one more word
MaxChunks == 1

\* short arrays have up to MaxSmallWords words
MaxSmallWords == 2

\* requested bit lengths: below one chunk, on and off a word boundary ...
SmallLengths == {Usize(1), Usize(100)} \cup {Usize(64 * k) : k \in 0 .. MaxSmallWords}
\* ... k full chunks, and k full chunks and one word ...
ChunkLengths ==
    UNION {{Usize(k * CHUNK_SIZE_U64 * 64), Usize(k * CHUNK_SIZE_U64 * 64 + 64)} :
             k \in 1 .. MaxChunks}
\* ... and the largest arguments a usize holds: 2^64 - 1 and 2^64 - 64
HugeLengths == {Bits, Bits \ (0 .. 5)}

\* bit_length of the array v as a natural
NatBitLength(v) ==
    IF v.more = {} THEN 64 * Len(v.data) ELSE ToNat(bit_length(v))

\* bit indices: the first bit, a bit of the second word, and the bits on either
\* side of the end of the array
Indices(h) ==
    LET n == NatBitLength(arr[h])
    IN  {i \in {0, 99, n - 1, n} : i >= 0}

\* bit indices for an array that is scanned in chunks: the first bit, the first bit
\* after the first chunk, the last bit (of an array of fewer than 2^31 bits)
ScanIndices(h) ==
    LET n == NatBitLength(arr[h])
    IN  IF arr[h].more = {} \/ Fits(bit_length(arr[h]))
        THEN {i \in {0, CHUNK_SIZE_U64 * 64, n - 1} : i >= 0 /\ i < n}
        ELSE {0, CHUNK_SIZE_U64 * 64}

\* chunk numbers: every chunk of the largest array and two past its end ...
SmallChunkNums == {Usize(k) : k \in 0 .. (MaxChunks + 2)}
\* ... and numbers whose product with CHUNK_SIZE_U64 leaves 61, 63 or 64 bits, and
\* 2^53 - 2^18, for which to_bin_chunked asks for 2 GiB and 8 bytes a word
HugeChunkNums == {{51}, {53}, {54}, {0, 54}, Bits, 18 .. 52}

\* byte buffers and byte offsets for or_chunk: empty, one byte, two bytes; offsets
\* at the start, across the first word boundary, on either side of the end and
\* past it
Bins == {<<>>, <<129>>, <<255, 1>>}
Offsets(h) ==
    LET n == 8 * Len(arr[h].data)
    IN  {i \in {0, 7, n - 1, n, n + 1} : i >= 0}

\* operands of add and sub: i64::MAX and 1, i64::MIN and 1
Int64Pairs == {<<Bits \ {WORD_BITS - 1}, {0}>>, <<{WORD_BITS - 1}, {0}>>}

\* whole arrays of n words to merge, and their byte streams: word w as its 8 bytes,
\* least significant first
SampleArrays(n) ==
    {[i \in 1 .. n |-> IF i = 1 THEN {0, 15, 63} ELSE {}],
     [i \in 1 .. n |-> IF i = n THEN Bits \ {0} ELSE {35}]}
LEBytes(words) ==
    [i \in 1 .. (8 * Len(words)) |->
        SumRange([k \in 0 .. 7 |->
                    IF 8 * ((i - 1) % 8) + k \in words[(i - 1) \div 8 + 1]
                    THEN Pow2(k) ELSE 0], 0, 7)]
Encoded(h) == {LEBytes(b) : b \in SampleArrays(Len(arr[h].data))}

---------------------------------------------------------------------------
(* Specifications.  Each one has the calls of one part of the interface,   *)
(* on the array sizes that part needs.                                     *)

\* every NIF on array "a" of two words (or of the size a huge length gives), next
\* to put and get on array "b" of one word
WholeIndices(h) == {i \in Indices(h) : h = "a" \/ i \in {0, 64}}
WholeChunkNums == {Usize(0), Usize(1), {54}, Bits}
\* two bytes at the start and on either side of the end, no bytes past the end
WholeMerges(h) ==
    LET n == 8 * Len(arr[h].data)
    IN  ({<<255, 1>>} \X {i \in {0, n - 1, n} : i >= 0}) \cup {<<<<>>, n + 1>>}

Next ==
    \/ \E length \in {Usize(100)} \cup HugeLengths : New("a", length)
    \/ \E length \in {Usize(64)} : New("b", length)
    \/ \E h \in Handles :
          \/ \E index \in WholeIndices(h),
                 value \in (IF h = "a" THEN BOOLEAN ELSE {TRUE}) :
                Put(h, index, value)
          \/ \E index \in WholeIndices(h) \ {99} : Get(h, index)
    \/ \E h \in {"a"} :
          \/ CountOnes(h)
          \/ BitLength(h)
          \/ \E chunk_num \in WholeChunkNums : ToBinChunked(h, chunk_num)
          \/ \E m \in WholeMerges(h) : OrChunk(h, m[1], m[2])
          \/ \E chunk_num \in WholeChunkNums : CountOnesChunked(h, chunk_num)

Spec == Init /\ [][Next]_vars

\* the calls that write to no array: add and sub, and those that only read, with
\* any chunk number, between puts that succeed, on an array of two words and on
\* one of 2^28 words
NextRead ==
    \/ \E p \in Int64Pairs : Add(p[1], p[2]) \/ Sub(p[1], p[2])
    \/ \E h \in {"a"} :
          \/ \E length \in {Usize(100), {34}} : New(h, length)
          \/ \E index \in ScanIndices(h), value \in BOOLEAN : Put(h, index, value)
          \/ \E index \in ScanIndices(h) : Get(h, index)
          \/ CountOnes(h)
          \/ BitLength(h)
          \/ \E chunk_num \in WholeChunkNums : ToBinChunked(h, chunk_num)
          \/ \E chunk_num \in WholeChunkNums : CountOnesChunked(h, chunk_num)

SpecRead == Init /\ [][NextRead]_vars

\* a transfer is cut into at most MaxPieces or_chunk calls of a length other than
\* all the bytes the host holds
MaxPieces == 2

\* lengths of the pieces the host may merge: all it holds, or 3 or 8189 bytes
PieceLengths ==
    {Len(xfer.buf)} \cup {n \in {3, 8189} : xfer.pieces < MaxPieces}

\* bits put into "a" and "b" before a transfer: the first and the last word of
\* "a", the first word (another bit) and the last word (the same bit) of "b"
XferIndices(h) ==
    LET n == NatBitLength(arr[h])
    IN  {i \in (IF h = "a" THEN {0, n - 1} ELSE {1, n - 1}) : i >= 0 /\ i < n}

\* one transfer from "a" into "b", both of two words or both of a chunk and a
\* word, after puts to each
NextXfer ==
    \/ \E length \in {Usize(128), Usize(64 * (CHUNK_SIZE_U64 + 1))} :
          New("a", length)
    \/ \E length \in {bit_length(arr["a"])} :
          arr["a"].exists /\ New("b", length)
    \/ \E h \in Handles : \E index \in XferIndices(h) :
          xfer.state = "idle" /\ Put(h, index, TRUE)
    \/ XferSerialize
    \/ \E n \in PieceLengths : XferMerge(n)

SpecXfer == Init /\ [][NextXfer]_vars

\* point access on one array: new, put, get, count_ones, bit_length, or_chunk
NextPoint ==
    \E h \in {"a"} :
        \/ \E length \in SmallLengths \cup HugeLengths : New(h, length)
        \/ \E index \in Indices(h), value \in BOOLEAN : Put(h, index, value)
        \/ \E index \in Indices(h) : Get(h, index)
        \/ CountOnes(h)
        \/ BitLength(h)
        \/ \E bin \in Bins, byte_offset \in Offsets(h) : OrChunk(h, bin, byte_offset)

SpecPoint == Init /\ [][NextPoint]_vars

\* merging: new, put and or_chunk with short buffers and with whole arrays
NextMerge ==
    \E h \in {"a"} :
        \/ \E length \in SmallLengths : New(h, length)
        \/ \E index \in {99}, value \in BOOLEAN : Put(h, index, value)
        \/ \E bin \in Bins, byte_offset \in Offsets(h) : OrChunk(h, bin, byte_offset)
        \/ \E bin \in Encoded(h) : OrChunk(h, bin, 0)

SpecMerge == Init /\ [][NextMerge]_vars

\* single to_bin_chunked calls with any chunk number
NextSer ==
    \E h \in {"a"} :
        \/ \E length \in {Usize(0), Usize(100)} \cup ChunkLengths : New(h, length)
        \/ \E index \in ScanIndices(h), value \in BOOLEAN : Put(h, index, value)
        \/ \E chunk_num \in SmallChunkNums \cup HugeChunkNums :
              ToBinChunked(h, chunk_num)

SpecSer == Init /\ [][NextSer]_vars

\* single count_ones_chunked calls with any chunk number
NextCnt ==
    \E h \in {"a"} :
        \/ \E length \in {Usize(100)} \cup ChunkLengths : New(h, length)
        \/ \E index \in ScanIndices(h), value \in BOOLEAN : Put(h, index, value)
        \/ \E chunk_num \in SmallChunkNums \cup HugeChunkNums :
              CountOnesChunked(h, chunk_num)

SpecCnt == Init /\ [][NextCnt]_vars

\* the cursor-driven serialization of an array that is written to meanwhile
NextSerScan ==
    \E h \in {"a"} :
        \/ \E length \in {Usize(0), Usize(100)} \cup ChunkLengths : New(h, length)
        \/ \E index \in ScanIndices(h), value \in BOOLEAN : Put(h, index, value)
        \/ SerializeScan(h)

SpecSerScan == Init /\ [][NextSerScan]_vars

\* the cursor-driven count of an array that is written to meanwhile
NextCntScan ==
    \E h \in {"a"} :
        \/ \E length \in {Usize(0), Usize(100)} \cup ChunkLengths : New(h, length)
        \/ \E index \in ScanIndices(h), value \in BOOLEAN : Put(h, index, value)
        \/ CountOnesScan(h)

SpecCntScan == Init /\ [][NextCntScan]_vars

\* the calls threads make: on bits that one merge writes in two steps
ThreadCalls ==
    {[op |-> "put", index |-> 0, value |-> FALSE],
     [op |-> "put", index |-> 8, value |-> TRUE],
     [op |-> "put", index |-> 64 * MaxSmallWords, value |-> TRUE],
     [op |-> "get", index |-> 8],
     [op |-> "count_ones"],
     [op |-> "to_bin_chunked", chunk_num |-> Usize(0)],
     [op |-> "or_chunk", bin |-> <<255, 1>>, byte_offset |-> 0],
     [op |-> "count_ones_chunked", chunk_num |-> Usize(0)]}

\* threads on one array
NextThreads ==
    \/ \E length \in {Usize(64)} : New("a", length)
    \/ \E t \in Threads :
          \/ \E c \in ThreadCalls : ThreadCall(t, c)
          \/ ThreadLock(t)
          \/ ThreadStep(t)
          \/ ThreadReturn(t)

SpecThreads == Init /\ [][NextThreads]_vars

---------------------------------------------------------------------------
(* Properties.                                                             *)

\* bit k of the byte value v
ByteBit(v, k) == (v \div <<1, 2, 4, 8, 16, 32, 64, 128>>[k + 1]) % 2 = 1

\* ceil(n / 64) of a usize n, without the overflow of n + 63
Ceil64(n) ==
    wrapping_add(Shr(n, 6), IF n \cap (0 .. 5) = {} THEN {} ELSE {0})

\* the indices whose bit get reports set
SetIndices(v) ==
    {i \in 0 .. (NatBitLength(v) - 1) : get(v, i).value}

\* C5: a put(i, v) that returns ok was given an index below bit_length, and get(i)
\* on the array it leaves returns v, whatever puts and merges came before.
C5_GetAfterPut ==
    (ret.op = "put" /\ ret.outcome = "ok") =>
        /\ ret.index < NatBitLength(arr[ret.h])
        /\ get(arr[ret.h], ret.index) = [outcome |-> "ok", value |-> ret.value]

\* a bit is cleared by put after a merge set it, and set by put in a merged word
C5_Witness ==
    /\ ret.op = "put" /\ ret.outcome = "ok" /\ ret.index = 0 /\ ~ret.value
    /\ 7 \in arr[ret.h].data[1]

\* C6: a put(i, v) that returns ok leaves every word but words[i / 64] as it was, and
\* get(j) for every other index j as it was.
C6_PutFrame ==
    [][(ret'.op = "put" /\ ret'.outcome = "ok") =>
          LET h == ret'.h
              i == ret'.index
          IN  /\ \A w \in 1 .. Len(arr[h].data) :
                    w # i \div 64 + 1 => arr'[h].data[w] = arr[h].data[w]
              /\ \A j \in 0 .. (NatBitLength(arr[h]) - 1) :
                    j # i => get(arr'[h], j) = get(arr[h], j)
              /\ Len(arr'[h].data) = Len(arr[h].data)]_vars

\* a put into a word that holds other set bits, next to another word that has some
C6_Witness ==
    /\ ret.op = "put" /\ ret.outcome = "ok" /\ ret.index = 99
    /\ arr[ret.h].data[2] \ {35} # {}
    /\ arr[ret.h].data[1] # {}

\* C7: count_ones is the number of indices in [0, bit_length) at which get is true,
\* in every state puts and merges lead to, and it is what the count_ones call
\* returns; a put of true adds one to it when the bit was clear and nothing when the
\* bit was set.
C7_CountIsSetBits ==
    /\ [](/\ \A h \in Handles :
                arr[h].exists =>
                   count_ones(arr[h]) = Cardinality(SetIndices(arr[h]))
          /\ (ret.op = "count_ones" /\ ret.outcome = "ok") =>
                ret.value = Cardinality(SetIndices(arr[ret.h])))
    /\ [][(ret'.op = "put" /\ ret'.outcome = "ok" /\ ret'.value) =>
            count_ones(arr'[ret'.h]) =
               count_ones(arr[ret'.h]) +
                  (IF get(arr[ret'.h], ret'.index).value THEN 0 ELSE 1)]_vars

\* count_ones returns 3 for an array with bits in two words
C7_Witness ==
    /\ ret.op = "count_ones" /\ ret.outcome = "ok" /\ ret.value = 3
    /\ Len(arr[ret.h].data) = 2
    /\ arr[ret.h].data[1] # {} /\ arr[ret.h].data[2] # {}

\* C8: new(n) that returns a resource made ceil(n / 64) words, all zero, and
\* bit_length is 64 * ceil(n / 64).
C8_NewLength ==
    (ret.op = "new" /\ ret.outcome = "ok") =>
        LET words == arr[ret.h].data
        IN  /\ vec_len(arr[ret.h]) = Ceil64(ret.length)
            /\ \A i \in 1 .. Len(words) : words[i] = {}
            /\ bit_length(arr[ret.h]) = Shl(Ceil64(ret.length), 6)

\* C3: or_chunk of the W*8-byte little-endian stream of an array b, at offset 0, into
\* an array of W words that is all zero leaves it equal to b; the same call again
\* leaves it as it is.
C3_MergeIsUnion ==
    [][(/\ ret'.op = "or_chunk" /\ ret'.h = "a" /\ ret'.byte_offset = 0
        /\ ~arr["a"].poisoned) =>
          \A b \in SampleArrays(Len(arr["a"].data)) :
             ret'.bin = LEBytes(b) =>
                /\ ret'.outcome = "ok"
                /\ (\A w \in 1 .. Len(b) : arr["a"].data[w] = {}) =>
                       arr'["a"].data = b
                /\ ret = ret' => arr'["a"].data = arr["a"].data]_vars

\* a two-word array was merged into a zero array, and then merged again
C3_Witness ==
    /\ ret.op = "or_chunk" /\ ret.outcome = "ok"
    /\ Len(ret.bin) = 16 /\ ret.byte_offset = 0
    /\ arr[ret.h].data = <<{35}, Bits \ {0}>>

\* C10: or_chunk(bin, byte_offset) with byte_offset + len(bin) <= W*8 returns
\* byte_offset + len(bin), and bit p of word w is set afterwards exactly when it was
\* set before or byte 8w + p/8 of the array is byte x of the input and bit p % 8 of
\* bin[x] is set: every input byte is ORed into its lane, nothing is cleared, nothing
\* outside the byte range changes.
C10_OrChunk ==
    [][(/\ ret'.op = "or_chunk"
        /\ ~arr[ret'.h].poisoned
        /\ ret'.byte_offset + Len(ret'.bin) <= 8 * Len(arr[ret'.h].data)) =>
          LET h   == ret'.h
              off == ret'.byte_offset
              n   == Len(ret'.bin)
          IN  /\ ret'.outcome = "ok"
              /\ ret'.value = off + n
              /\ Len(arr'[h].data) = Len(arr[h].data)
              /\ \A w \in 0 .. (Len(arr[h].data) - 1), p \in Bits :
                    LET q == 8 * w + p \div 8
                    IN  p \in arr'[h].data[w + 1] <=>
                          \/ p \in arr[h].data[w + 1]
                          \/ /\ q >= off /\ q < off + n
                             /\ ByteBit(ret'.bin[q - off + 1], p % 8)]_vars

\* two bytes were merged across a word boundary into an array that had bits set
C10_Witness ==
    /\ ret.op = "or_chunk" /\ ret.outcome = "ok"
    /\ ret.bin = <<255, 1>> /\ ret.byte_offset = 7 /\ ret.value = 9
    /\ 35 \in arr[ret.h].data[2] /\ 0 \in arr[ret.h].data[2]

\* the to_bin_chunked call with result r on the words data found the machine out
\* of memory: the allocator refused a binary it might have granted, or the box of
\* the error term, or the payload of a panic
NoMemory(r, v) ==
    \/ r.outcome = "abort"
    \/ r.outcome = "error" /\ <<TRUE, TRUE>> \in bin_allocs(v, r.chunk_num)

\* ceil(w / CHUNK_SIZE_U64) for a word count w
ChunksOf(w) == (w + CHUNK_SIZE_U64 - 1) \div CHUNK_SIZE_U64

\* C1: when a scan from chunk 0 has reached eof and the array was not changed since
\* it began, the concatenated buffers have W * 8 bytes and bit k of byte 8w + y is
\* bit 8y + k of words[w]; no call of such a scan panics.
C1_RoundTrip ==
    /\ ser.state # "failed"
    /\ (ser.state = "eof" /\ ser.clean) =>
          LET words == arr[ser.h].data
          IN  /\ Len(ser.out) = 8 * Len(words)
              /\ \A w \in 0 .. (Len(words) - 1), y \in 0 .. 7, k \in 0 .. 7 :
                    ByteBit(ser.out[8 * w + y + 1], k) <=> (8 * y + k) \in words[w + 1]

\* a scan of an array of more than one chunk, with bits in the first and the last
\* word, has ended
C1_Witness ==
    /\ ser.state = "eof" /\ ser.clean /\ ser.calls > 1
    /\ ser.out[1] = 1
    /\ ser.out[Len(ser.out)] = 128

\* C9: for W >= 1 a scan whose calls get their memory ends after ceil(W / 1024)
\* calls; a call that does not end it returns cursor chunk_num + 1 and 8192 bytes; the call that ends it is call
\* ceil(W / 1024) - 1 and returns the remaining (W - 1024 * (ceil(W / 1024) - 1)) * 8
\* bytes, which is more than none.
C9_ScanLength ==
    [][LET W == Len(arr["a"].data)
       IN  (/\ ret'.op = "to_bin_chunked" /\ ret'.h = "a"
            /\ ~arr["a"].poisoned /\ W >= 1
            /\ ~NoMemory(ret', arr["a"])) =>
              /\ ret'.outcome = "ok"
              /\ ser'.state \in {"run", "eof"}
              /\ ret'.chunk_num = Usize(ser'.calls - 1)
              /\ ser'.state = "run" =>
                    /\ ser'.calls < ChunksOf(W)
                    /\ ret'.cursor = NextCursor(Usize(ser'.calls))
                    /\ ser'.cursor = Usize(ser'.calls)
                    /\ Len(ret'.bin) = 8 * CHUNK_SIZE_U64
              /\ ser'.state = "eof" =>
                    /\ ser'.calls = ChunksOf(W)
                    /\ ret'.cursor = EofCursor
                    /\ Len(ret'.bin) = (W - CHUNK_SIZE_U64 * (ChunksOf(W) - 1)) * 8
                    /\ Len(ret'.bin) > 0]_vars

\* the scan of an array of exactly one chunk ended at its first call
C9_Witness ==
    /\ ser.state = "eof" /\ ser.calls = 1
    /\ Len(arr[ser.h].data) = CHUNK_SIZE_U64
    /\ Len(ret.bin) = 8192

\* C4: when a count scan from chunk 0 has reached eof and the array was not changed
\* since it began, the sum of the partial counts is count_ones of the array; such a
\* scan never fails.
C4_ChunkedCount ==
    /\ cnt.state # "failed"
    /\ (cnt.state = "eof" /\ cnt.clean) =>
          cnt.total = count_ones(arr[cnt.h])

\* a count scan of more than one chunk, with bits in both chunks, has ended
C4_Witness ==
    /\ cnt.state = "eof" /\ cnt.clean /\ cnt.calls > 1
    /\ cnt.total = 3
    /\ arr[cnt.h].data[1] # {}

\* chunk_num * 1024 >= w in the integers, for a usize chunk_num and a word count w
PastEnd(chunk_num, w) ==
    LET offset == Mul(chunk_num, Usize(CHUNK_SIZE_U64))
    IN  offset.of \/ ULe(Usize(w), offset.v)

\* C2: to_bin_chunked with chunk_num * 1024 >= W returns the EOF cursor and a buffer
\* of no bytes, and does not fail, on a machine that is not out of memory.
C2_PastEndIsEof ==
    [][(/\ ret'.op = "to_bin_chunked"
        /\ ~arr[ret'.h].poisoned
        /\ ~NoMemory(ret', arr[ret'.h])
        /\ PastEnd(ret'.chunk_num, Len(arr[ret'.h].data))) =>
          /\ ret'.outcome = "ok"
          /\ ret'.cursor = EofCursor
          /\ ret'.bin = <<>>]_vars

\* a call past the end of a non-empty array that did fail
C2_Failure ==
    /\ ret.op = "to_bin_chunked" /\ ret.outcome \in {"panic", "error"}
    /\ ret.chunk_num = Usize(1)
    /\ Len(arr[ret.h].data) = 2

\* new(2^64 - 1) that returned an array of no words
C8_Failure ==
    /\ ret.op = "new" /\ ret.outcome = "ok" /\ ret.length = Bits
    /\ arr[ret.h].data = <<>>

\* C11: a call that reports failure leaves the words of its array as they were
\* before the call (a call in which the process is aborted reports nothing); an
\* or_chunk whose bytes reach past the last word changes nothing.
C11_FailureChangesNothing ==
    [][(ret'.op \in {"put", "get", "or_chunk", "to_bin_chunked", "count_ones_chunked"}
          /\ ret'.outcome \notin {"ok", "abort"}) =>
            arr'[ret'.h].data = arr[ret'.h].data]_vars

\* an or_chunk of two bytes at the last byte of a one-word array failed, and the
\* first byte is in the word
C11_Failure ==
    /\ ret.op = "or_chunk" /\ ret.outcome = "panic"
    /\ ret.bin = <<255, 1>> /\ ret.byte_offset = 7
    /\ arr[ret.h].data = <<56 .. 63>>

\* the threads that are inside the critical section of a NIF
InCritical == {t \in Threads : thr.t[t].guard}

\* C12: at most one thread is inside its critical section; every call that is over
\* has the result it has when the calls run whole, one after the other in the order
\* in which they took the lock; and whenever the mutex is free the words are what
\* those whole calls leave.
C12_CallsAreAtomic ==
    /\ Cardinality(InCritical) <= 1
    /\ \A t \in Threads :
          thr.t[t].pc = "ret" => thr.t[t].res = thr.t[t].expect
    /\ (InCritical = {} /\ \E t \in Threads : thr.t[t].pc # "idle") =>
          /\ arr["a"].data = thr.atomic.data
          /\ arr["a"].more = thr.atomic.more
          /\ arr["a"].poisoned = thr.atomic.poisoned

\* a count_ones call is over with count 9 while another thread waits for the lock
\* with a put: the count saw the two-byte merge whole
C12_Witness ==
    \E t, u \in Threads :
       /\ thr.t[t].pc = "ret" /\ thr.t[t].guard
       /\ thr.t[t].c.op = "count_ones" /\ thr.t[t].res.value = 9
       /\ thr.t[u].pc = "lock" /\ thr.t[u].c.op = "put"

\* C13: for every chunk_num, to_bin_chunked and count_ones_chunked on the same words
\* both succeed and return the same cursor, and the buffer has 8 bytes for each
\* word that count_ones_chunked counts, on a machine that is not out of memory.
C13_SameAddressing ==
    [][(/\ ret'.op = "to_bin_chunked" /\ ~arr[ret'.h].poisoned
        /\ ~NoMemory(ret', arr[ret'.h])) =>
          LET v       == arr[ret'.h]
              counted == count_ones_chunked(v, ret'.chunk_num, overflow_checks)
              offset  == Mul(ret'.chunk_num, Usize(CHUNK_SIZE_U64)).v
              size    == count_size(saturating_sub(vec_len(v), offset))
          IN  /\ ret'.outcome = "ok"
              /\ counted.outcome = "ok"
              /\ ret'.cursor = counted.cursor
              /\ Len(ret'.bin) = 8 * ToNat(size)]_vars

\* to_bin_chunked of the chunk after the last one failed on words on which
\* count_ones_chunked of that chunk returns EOF
C13_Failure ==
    /\ ret.op = "to_bin_chunked" /\ ret.outcome # "ok"
    /\ ret.chunk_num = Usize(2)
    /\ Len(arr[ret.h].data) = CHUNK_SIZE_U64 + 1
    /\ count_ones_chunked(arr[ret.h], ret.chunk_num, overflow_checks).cursor
          = EofCursor

\* the set bits of the words of chunk k (0-based) of data
BitsInChunk(data, k) ==
    LET lo == k * CHUNK_SIZE_U64 + 1
        hi == IF Len(data) < (k + 1) * CHUNK_SIZE_U64
              THEN Len(data) ELSE (k + 1) * CHUNK_SIZE_U64
    IN  IF hi < lo THEN 0
        ELSE SumRange([w \in lo .. hi |-> Cardinality(data[w])], lo, hi)

\* C14: a put between two calls of a count scan leaves the accumulated total as it
\* is, and each call adds the set bits its chunk has at the time of that call; a
\* scan that ends with no write to the array since it began has a total equal to
\* count_ones of the array at its start and at its end.
C14_ScanSeesLaterWrites ==
    /\ []((cnt.state = "eof" /\ cnt.clean) =>
             /\ cnt.total = cnt.start
             /\ cnt.total = count_ones(arr[cnt.h]))
    /\ [][/\ ret'.op = "put" => cnt'.total = cnt.total
          /\ (ret'.op = "count_ones_chunked" /\ ret'.outcome = "ok") =>
                cnt'.total = (IF cnt'.calls = 1 THEN 0 ELSE cnt.total)
                               + BitsInChunk(arr[ret'.h].data, cnt'.calls - 1)]_vars

\* a scan of two chunks has ended; a put to each chunk came between its two calls:
\* the one to the second chunk is in the total, the one to the first is not
C14_Witness ==
    /\ cnt.state = "eof" /\ ~cnt.clean /\ cnt.calls = 2
    /\ ret.op = "count_ones_chunked"
    /\ cnt.start = 0 /\ cnt.total = 1
    /\ count_ones(arr[cnt.h]) = 2

\* C15: count_ones_chunked with chunk_num * 1024 >= W in the integers returns the EOF
\* cursor and the count 0, whatever the size of chunk_num.
C15_PastEndCountsNothing ==
    [][(/\ ret'.op = "count_ones_chunked"
        /\ ~arr[ret'.h].poisoned
        /\ PastEnd(ret'.chunk_num, Len(arr[ret'.h].data))) =>
          /\ ret'.outcome = "ok"
          /\ ret'.cursor = EofCursor
          /\ ret'.count = 0]_vars

\* count_ones_chunked(2^54) on an array of more than one chunk returned a cursor
\* that is not EOF and a count that is not 0
C15_Failure ==
    /\ ret.op = "count_ones_chunked" /\ ret.outcome = "ok"
    /\ ret.chunk_num = {54}
    /\ ret.cursor = NextCursor({0, 54})
    /\ ret.count = 1

\* C16: an array has ceil(requested length / 64) words when new returns it, no call
\* changes the number of words of an array, and bit_length returns 64 times it.
C16_LengthIsFixed ==
    [][/\ \A h \in Handles :
             /\ (~arr[h].exists /\ arr'[h].exists) =>
                   vec_len(arr'[h]) = Ceil64(ret'.length)
             /\ (arr[h].exists /\ ~Killed') =>
                   arr'[h].exists /\ vec_len(arr'[h]) = vec_len(arr[h])
       /\ (ret'.op = "bit_length" /\ ret'.outcome = "ok") =>
             ret'.value = Shl(vec_len(arr'[ret'.h]), 6)]_vars

\* bit_length returned 0 for the array that new(2^64 - 1) made (no other length
\* asked of new gives an array of no words here)
C16_Failure ==
    /\ ret.op = "bit_length" /\ ret.outcome = "ok" /\ ret.value = {}
    /\ arr["a"].data = <<>>
    /\ arr["b"].exists

\* bit i of the array, for any i below 64 times the number of words
BitAt(data, i) == (i % 64) \in data[i \div 64 + 1]

\* the bit indices of the array that are set, padding included
AllSet(data) == {i \in 0 .. (64 * Len(data) - 1) : BitAt(data, i)}

\* C17: every index below bit_length, those at and above the requested length
\* included, is written by put and read by get, and a bit that is set there is
\* counted by count_ones and count_ones_chunked and is in the bytes to_bin_chunked
\* returns; new(100) makes 128 bits.
C17_PaddingBitsAreBits ==
    LET data == arr[ret.h].data
    IN  (ret.op # "none" /\ ret.outcome = "ok") =>
          /\ (ret.op = "new" /\ ret.length = Usize(100)) =>
                bit_length(arr[ret.h]) = Usize(128)
          /\ ret.op = "put" => BitAt(data, ret.index) = ret.value
          /\ ret.op = "get" => ret.value = BitAt(data, ret.index)
          /\ ret.op = "count_ones" => ret.value = Cardinality(AllSet(data))
          /\ (ret.op = "count_ones_chunked" /\ ret.chunk_num = Usize(0)) =>
                ret.count = Cardinality(AllSet(data))
          /\ (ret.op = "to_bin_chunked" /\ ret.chunk_num = Usize(0)) =>
                \A i \in 0 .. (64 * Len(data) - 1) :
                   ByteBit(ret.bin[i \div 8 + 1], i % 8) <=> BitAt(data, i)

\* after put(99, true) and put(127, true) on the array new(100) made, count_ones
\* returned 2: bit 127 is above the requested length
C17_Witness ==
    /\ ret.op = "count_ones" /\ ret.outcome = "ok" /\ ret.value = 2
    /\ arr["a"].data = <<{}, {35, 63}>>

\* what a chunk call returned, without the arguments it was made with
Returned(r) == [x \in DOMAIN r \ {"op", "h", "chunk_num"} |-> r[x]]

\* C18: get, count_ones, bit_length, to_bin_chunked and count_ones_chunked leave every
\* word as it is, and what to_bin_chunked(k) and count_ones_chunked(k) return is a
\* function of k and the words alone, on a machine that is not out of memory: the
\* one the call computes on an array no chunk call was made on before.
C18_ReadsAreStateless ==
    [][(ret'.op \in {"get", "count_ones", "bit_length", "to_bin_chunked",
                     "count_ones_chunked"} /\ ~Killed') =>
          /\ arr'[ret'.h].data = arr[ret'.h].data
          /\ arr'[ret'.h].more = arr[ret'.h].more
          /\ (ret'.op = "to_bin_chunked" /\ ~NoMemory(ret', arr[ret'.h])) =>
                Returned(ret') =
                   to_bin_chunked(arr[ret'.h], ret'.chunk_num, overflow_checks,
                                  <<TRUE, TRUE>> \in bin_allocs(arr[ret'.h],
                                                                ret'.chunk_num),
                                  TRUE)
          /\ ret'.op = "count_ones_chunked" =>
                Returned(ret') = count_ones_chunked(arr[ret'.h], ret'.chunk_num,
                                                    overflow_checks)]_vars

\* to_bin_chunked(0) failed on words on which it succeeds when it is the first call:
\* a chunk call made before it panicked, and no put failed
C18_Failure ==
    /\ ret.op = "to_bin_chunked" /\ ret.chunk_num = Usize(0)
    /\ ret.outcome = "panic"
    /\ to_bin_chunked(arr[ret.h], ret.chunk_num, overflow_checks,
                      TRUE, TRUE).outcome = "ok"

\* C19: in a transfer of "a" into "b" of the same number of words W, with each
\* or_chunk at the offset the one before returned, every to_bin_chunked that gets
\* its memory and every or_chunk call succeeds (no word index >= W is accessed), and when the last byte
\* is merged every word of "b" is its old value OR the word of "a", "a" is as it
\* was and the merge cursor is W * 8, into whatever pieces the bytes were cut.
C19_Transfer ==
    [][(\/ ret'.op = "or_chunk"
        \/ ret'.op = "to_bin_chunked" /\ ~NoMemory(ret', arr["a"])) =>
          /\ ret'.outcome = "ok"
          /\ xfer'.state \in {"run", "eof"}
          /\ ret'.op = "or_chunk" =>
                /\ xfer'.off = xfer.off + Len(ret'.bin)
                /\ xfer'.off <= 8 * Len(arr["b"].data)
          /\ (ret'.op = "or_chunk" /\ xfer'.state = "eof" /\ xfer'.buf = <<>>) =>
                /\ xfer'.off = 8 * Len(xfer'.from)
                /\ arr'["a"].data = xfer'.from
                /\ arr'["b"].data =
                      [w \in 1 .. Len(xfer'.from) |-> xfer'.into[w] \cup xfer'.from[w]]
       ]_vars

\* a transfer between arrays of a chunk and a word is over; its last piece was
\* merged at an offset that is not a multiple of 8, "b" had a bit that "a" has not
\* and has got the bits of the first and of the last word of "a"
C19_Witness ==
    /\ xfer.state = "eof" /\ xfer.buf = <<>> /\ xfer.off = 8 * (CHUNK_SIZE_U64 + 1)
    /\ ret.op = "or_chunk" /\ ret.byte_offset % 8 # 0
    /\ xfer.into[1] = {1} /\ xfer.into[CHUNK_SIZE_U64 + 1] = {}
    /\ arr["b"].data[1] = {0, 1}
    /\ arr["b"].data[CHUNK_SIZE_U64 + 1] = {63}

\* C20: put and get with index >= bit_length and or_chunk with byte_offset +
\* len(bin) > W * 8 panic; a call that panics leaves the mutex of its array
\* poisoned; every call on an array whose mutex is poisoned panics, returns nothing
\* and changes nothing; no call changes another array (while the process
\* lives).
C20_FailureIsSticky ==
    [][(ret'.op \notin {"none", "new", "add", "sub"} /\ ~Killed') =>
          LET h == ret'.h
              W == Len(arr[h].data)
          IN  /\ arr[h].poisoned =>
                    /\ ret'.outcome = "panic"
                    /\ ret'.op # "put" =>
                          DOMAIN ret' \cap {"value", "cursor", "count"} = {}
                    /\ arr'[h] = arr[h]
              /\ ret'.outcome = "panic" => arr'[h].poisoned
              /\ (ret'.op \in {"put", "get"} /\ ret'.index >= 64 * W) =>
                    ret'.outcome = "panic"
              /\ (ret'.op = "or_chunk" /\ ret'.byte_offset + Len(ret'.bin) > 8 * W) =>
                    ret'.outcome = "panic"
              /\ \A g \in Handles \ {h} : arr'[g] = arr[g]]_vars

\* or_chunk of no bytes at an offset past the last byte of a two-word array
\* returned that offset, and the mutex is not poisoned
C20_Failure ==
    /\ ret.op = "or_chunk" /\ ret.outcome = "ok"
    /\ ret.bin = <<>> /\ ret.byte_offset = 17 /\ ret.value = 17
    /\ Len(arr[ret.h].data) = 2 /\ ~arr[ret.h].poisoned

=============================================================================
